---- MODULE Spec2Model ----
(***************************************************************************)
(* A model of the data-access layer of the robotics photo catalog          *)
(* (RoboticsPhotoDatabase, robotics_photo_db.py): the SQLite tables as the *)
(* connection sees them and as they are committed, the photo storage tree, *)
(* and the operations add_robot, add_photo, add_tag_to_photo,              *)
(* search_photos and list_all_robots.                                      *)
(*                                                                         *)
(* Text values are sequences of one-character strings, so that lower(),    *)
(* replace(), LIKE and the ORDER BY comparison are computed as the code    *)
(* and SQLite compute them.                                                *)
(***************************************************************************)
EXTENDS Integers, Sequences, FiniteSets, TLC

VARIABLES
    committed,  \* the database file: what every other connection reads
    conn,       \* the tables as self.conn sees them (committed + its open transaction)
    files,      \* the file system: path -> contents
    now,        \* the wall clock, in whole seconds
    pc,         \* where the add_photo call in progress stands ("idle" when none)
    call,       \* the frame of the add_photo call in progress
    last,       \* the outcome of the last call that returned or raised
    reqs,       \* the other connections: slot -> the call or request it runs
    lock        \* the slot whose connection holds the database write lock (0: none)

vars == <<committed, conn, files, now, pc, call, last, reqs, lock>>

\* What the calls on self.conn leave alone.
peers == <<reqs, lock>>

----------------------------------------------------------------------------
(* Bounds of the model. *)

MaxRobots == 2
MaxPhotos == 2
MaxClock == 1
MaxStored == 2
MaxLinks == 2

\* Python's None where a text or a list is expected (no text of the model is
\* this one-element sequence); an absent integer is 0, which no rowid is.
None == <<"None">>

----------------------------------------------------------------------------
(* Text. *)

UpperCase == <<"A","B","C","D","E","F","G","H","I","J","K","L","M",
               "N","O","P","Q","R","S","T","U","V","W","X","Y","Z">>
LowerCase == <<"a","b","c","d","e","f","g","h","i","j","k","l","m",
               "n","o","p","q","r","s","t","u","v","w","x","y","z">>
Digits == <<"0","1","2","3","4","5","6","7","8","9">>

\* The characters of the model in ASCII order: the code of a character is
\* its position here.
Ascii == <<" ", "%", ".", "/">> \o Digits \o UpperCase \o <<"_">> \o LowerCase

IndexIn(c, s) == CHOOSE i \in 1..Len(s) : s[i] = c

CharCode(c) == IndexIn(c, Ascii)

IsUpper(c) == \E i \in 1..Len(UpperCase) : UpperCase[i] = c

\* str.lower() on one character.
LowerChar(c) == IF IsUpper(c) THEN LowerCase[IndexIn(c, UpperCase)] ELSE c

\* str.lower()
Lower(s) == [i \in 1..Len(s) |-> LowerChar(s[i])]

\* str.replace(old, new) for one-character old and new.
Replace(s, old, new) == [i \in 1..Len(s) |-> IF s[i] = old THEN new ELSE s[i]]

\* memcmp order of two texts (SQLite's BINARY collation).
RECURSIVE TextLeq(_, _)
TextLeq(a, b) ==
    IF a = <<>> THEN TRUE
    ELSE IF b = <<>> THEN FALSE
    ELSE IF a[1] = b[1] THEN TextLeq(Tail(a), Tail(b))
    ELSE CharCode(a[1]) < CharCode(b[1])

\* SQLite's LIKE: % matches any run of characters, _ any one character, and
\* ASCII letters match without regard to case.
RECURSIVE Like(_, _)
Like(pat, s) ==
    IF pat = <<>> THEN s = <<>>
    ELSE IF pat[1] = "%" THEN
        \/ Like(Tail(pat), s)
        \/ s # <<>> /\ Like(pat, Tail(s))
    ELSE IF s = <<>> THEN FALSE
    ELSE /\ \/ pat[1] = "_"
            \/ LowerChar(pat[1]) = LowerChar(s[1])
         /\ Like(Tail(pat), Tail(s))

\* None where a list of texts is expected.
NoList == <<None>>

\* Mutant: "is not None", which takes an empty text or list as a filter.
Truthy_NotNone(v) == v # None /\ v # NoList

\* Python truthiness of an Optional[str] or Optional[List[str]] argument.
Truthy(v) == v # None /\ v # NoList /\ v # <<>>

----------------------------------------------------------------------------
(* The schema and its seed rows (database_schema.sql). *)

Drones == <<"D","r","o","n","e","s">>
AMRs == <<"A","M","R","s">>
RoboticArms == <<"R","o","b","o","t","i","c"," ","A","r","m","s">>

\* The rows of robot_categories: fixed reference data.
robot_categories ==
    << [category_id |-> 1, category_name |-> Drones],
       [category_id |-> 2, category_name |-> AMRs],
       [category_id |-> 3, category_name |-> RoboticArms] >>

\* tags.tag_name is UNIQUE: a row of that name is a conflict.
TagConflict(tags, tag_name) ==
    \E i \in 1..Len(tags) : tags[i].tag_name = tag_name

\* photo_tags has PRIMARY KEY (photo_id, tag_id): the same pair is a conflict.
LinkConflict(photo_tags, photo_id, tag_id) ==
    [photo_id |-> photo_id, tag_id |-> tag_id] \in DOMAIN photo_tags

\* robots, photos and tags are the sequences of their rows in rowid order;
\* photo_tags, which no query reads in order, is the bag of its rows
\* (row -> the number of copies of it in the table).
EmptyDb == [robots |-> <<>>, photos |-> <<>>, tags |-> <<>>, photo_tags |-> <<>>]

----------------------------------------------------------------------------
(* Helpers on tables: a table is the sequence of its rows in rowid order. *)

RECURSIVE Concat(_)
Concat(ss) == IF ss = <<>> THEN <<>> ELSE ss[1] \o Concat(Tail(ss))

Max(S) == CHOOSE x \in S : \A y \in S : y <= x

\* cursor.lastrowid after an INSERT: one more than the largest rowid in the
\* table as the connection sees it.
NextRowId(ids) == IF ids = {} THEN 1 ELSE Max(ids) + 1

RobotIds(d) == {d.robots[i].robot_id : i \in 1..Len(d.robots)}
PhotoIds(d) == {d.photos[i].photo_id : i \in 1..Len(d.photos)}
TagIds(d) == {d.tags[i].tag_id : i \in 1..Len(d.tags)}

----------------------------------------------------------------------------
(* The file system. *)

PhotoStorage == <<"p","h","o","t","o","_","s","t","o","r","a","g","e">>

\* pathlib's "/" operator.
JoinPath(a, b) == a \o <<"/">> \o b

\* The directories __init__ creates under photo_storage.
StorageDirs ==
    { JoinPath(PhotoStorage, <<"d","r","o","n","e","s">>),
      JoinPath(PhotoStorage, <<"a","m","r","s">>),
      JoinPath(PhotoStorage, <<"r","o","b","o","t","i","c","_","a","r","m","s">>) }

\* Path(p).name: the text after the last "/".
RECURSIVE BaseName(_)
BaseName(p) ==
    IF \E i \in 1..Len(p) : p[i] = "/"
    THEN BaseName(SubSeq(p, (CHOOSE i \in 1..Len(p) : p[i] = "/") + 1, Len(p)))
    ELSE p

\* datetime.now().strftime("%Y%m%d_%H%M%S"): one text per clock second.
Strftime(t) == <<Digits[t + 1]>>

\* datetime.now().date().isoformat(): every second of the modelled clock
\* falls on the same day.
IsoDate(t) == <<"2","0","2","5">>

BytesPerKb == 1024

\* shutil.copy2(src, dst): dst gets the contents of src; it raises when the
\* directory of dst does not exist.
CanCopyTo(dir) == dir \in StorageDirs

\* Mutant: a file that exists at dst is kept.
CopyFile_NoOverwrite(fs, src, dst) ==
    [p \in DOMAIN fs \cup {dst} |->
        IF p \in DOMAIN fs THEN fs[p] ELSE fs[src]]

\* shutil.copy2(src, dst): dst holds the bytes of src, whether or not a file
\* was there before.
CopyFile(fs, src, dst) ==
    [p \in DOMAIN fs \cup {dst} |-> IF p = dst THEN fs[src] ELSE fs[p]]

----------------------------------------------------------------------------
(* Queries. *)

\* Mutant: the name is compared without regard to case (COLLATE NOCASE).
SelectCategoryId_NoCase(category_name) ==
    SelectSeq(robot_categories,
              LAMBDA rc : Lower(rc.category_name) = Lower(category_name))

\* SELECT category_id FROM robot_categories WHERE category_name = ?
SelectCategoryId(category_name) ==
    SelectSeq(robot_categories, LAMBDA rc : rc.category_name = category_name)

\* FROM robots r JOIN robot_categories rc ON r.category_id = rc.category_id
RobotsJoinCategories(d) ==
    Concat([i \in 1..Len(d.robots) |->
        LET r == d.robots[i]
            rcs == SelectSeq(robot_categories,
                             LAMBDA rc : rc.category_id = r.category_id)
        IN [k \in 1..Len(rcs) |-> [r |-> r, rc |-> rcs[k]]]])

\* SELECT rc.category_name FROM robots r JOIN robot_categories rc ...
\* WHERE r.robot_id = ?
SelectRobotCategory(d, robot_id) ==
    SelectSeq(RobotsJoinCategories(d), LAMBDA x : x.r.robot_id = robot_id)

\* FROM photos p JOIN robots r ON p.robot_id = r.robot_id
\*               JOIN robot_categories rc ON r.category_id = rc.category_id
PhotosJoinRobots(d) ==
    Concat([i \in 1..Len(d.photos) |->
        LET p == d.photos[i]
            rs == SelectSeq(RobotsJoinCategories(d),
                            LAMBDA x : x.r.robot_id = p.robot_id)
        IN [k \in 1..Len(rs) |-> [p |-> p, r |-> rs[k].r, rc |-> rs[k].rc]]])

\* Mutant: the photo must be linked to every one of the tag names.
TaggedWithAny_All(d, photo_id, tags) ==
    \A k \in 1..Len(tags) :
        \E pt \in DOMAIN d.photo_tags, j \in 1..Len(d.tags) :
            /\ pt.photo_id = photo_id
            /\ pt.tag_id = d.tags[j].tag_id
            /\ d.tags[j].tag_name = tags[k]

\* p.photo_id IN (SELECT pt.photo_id FROM photo_tags pt
\*                JOIN tags t ON pt.tag_id = t.tag_id WHERE t.tag_name IN (...))
TaggedWithAny(d, photo_id, tags) ==
    \E pt \in DOMAIN d.photo_tags, j \in 1..Len(d.tags), k \in 1..Len(tags) :
        /\ pt.photo_id = photo_id
        /\ pt.tag_id = d.tags[j].tag_id
        /\ d.tags[j].tag_name = tags[k]

SearchRow(x) ==
    [photo_id |-> x.p.photo_id, file_name |-> x.p.file_name,
     file_path |-> x.p.file_path, upload_date |-> x.p.upload_date,
     photo_type |-> x.p.photo_type, description |-> x.p.description,
     manufacturer |-> x.r.manufacturer, model_name |-> x.r.model_name,
     category_name |-> x.rc.category_name]

\* Mutant: the category filter is a LIKE, as the manufacturer filter is.
search_photos_CategoryLike(d, category, manufacturer, model, tags) ==
    LET Keep(x) ==
            /\ Truthy(category) => Like(category, x.rc.category_name)
            /\ Truthy(manufacturer) =>
                   Like(<<"%">> \o manufacturer \o <<"%">>, x.r.manufacturer)
            /\ Truthy(model) => Like(<<"%">> \o model \o <<"%">>, x.r.model_name)
            /\ Truthy(tags) => TaggedWithAny(d, x.p.photo_id, tags)
        rows == SelectSeq(PhotosJoinRobots(d), Keep)
    IN [i \in 1..Len(rows) |-> SearchRow(rows[i])]

\* Mutant: the tag filter as a JOIN of photo_tags and tags in the outer query,
\* which gives one row for each link and each supplied name that matches.
search_photos_JoinTags(d, category, manufacturer, model, tags) ==
    LET Keep(x) ==
            /\ Truthy(category) => x.rc.category_name = category
            /\ Truthy(manufacturer) =>
                   Like(<<"%">> \o manufacturer \o <<"%">>, x.r.manufacturer)
            /\ Truthy(model) => Like(<<"%">> \o model \o <<"%">>, x.r.model_name)
        rows == SelectSeq(PhotosJoinRobots(d), Keep)
        Matches(x) ==
            IF Truthy(tags)
            THEN Cardinality({y \in (DOMAIN d.photo_tags) \X (1..Len(d.tags))
                                     \X (1..Len(tags)) :
                     /\ y[1].photo_id = x.p.photo_id
                     /\ y[1].tag_id = d.tags[y[2]].tag_id
                     /\ d.tags[y[2]].tag_name = tags[y[3]]})
            ELSE 1
    IN Concat([i \in 1..Len(rows) |->
                  [k \in 1..Matches(rows[i]) |-> SearchRow(rows[i])]])

\* The rows of search_photos: the photos joined with their robot and its
\* category, each kept when it passes every filter that is supplied.
search_photos(d, category, manufacturer, model, tags) ==
    LET Keep(x) ==
            /\ Truthy(category) => x.rc.category_name = category
            /\ Truthy(manufacturer) =>
                   Like(<<"%">> \o manufacturer \o <<"%">>, x.r.manufacturer)
            /\ Truthy(model) => Like(<<"%">> \o model \o <<"%">>, x.r.model_name)
            /\ Truthy(tags) => TaggedWithAny(d, x.p.photo_id, tags)
        rows == SelectSeq(PhotosJoinRobots(d), Keep)
    IN [i \in 1..Len(rows) |-> SearchRow(rows[i])]

\* Mutant: COUNT(*), which counts the NULL row of a robot without photos.
CountPhotos_Star(d, robot_id) ==
    Max({1, Cardinality({i \in 1..Len(d.photos) : d.photos[i].robot_id = robot_id})})

\* COUNT(p.photo_id) over robot r LEFT JOIN photos p ON r.robot_id = p.robot_id:
\* a robot without photos joins one row whose photo_id is NULL, which COUNT skips.
CountPhotos(d, robot_id) ==
    Cardinality({i \in 1..Len(d.photos) : d.photos[i].robot_id = robot_id})

\* Mutant: ORDER BY rc.category_name, r.model_name
OrderLeq_NoManufacturer(a, b) ==
    IF a.category_name # b.category_name
    THEN TextLeq(a.category_name, b.category_name)
    ELSE TextLeq(a.model_name, b.model_name)

\* ORDER BY rc.category_name, r.manufacturer, r.model_name
OrderLeq(a, b) ==
    IF a.category_name # b.category_name
    THEN TextLeq(a.category_name, b.category_name)
    ELSE IF a.manufacturer # b.manufacturer
    THEN TextLeq(a.manufacturer, b.manufacturer)
    ELSE TextLeq(a.model_name, b.model_name)

RECURSIVE InsertSorted(_, _)
InsertSorted(row, sorted) ==
    IF sorted = <<>> THEN <<row>>
    ELSE IF OrderLeq(sorted[1], row)
    THEN <<sorted[1]>> \o InsertSorted(row, Tail(sorted))
    ELSE <<row>> \o sorted

RECURSIVE SortRows(_)
SortRows(rows) ==
    IF rows = <<>> THEN <<>>
    ELSE InsertSorted(rows[Len(rows)], SortRows(SubSeq(rows, 1, Len(rows) - 1)))

\* One row per group of GROUP BY r.robot_id: the first joined row of each
\* robot_id stands for its group.
GroupByRobot(joined) ==
    SelectSeq([i \in 1..Len(joined) |-> [i |-> i, x |-> joined[i]]],
              LAMBDA e : \A j \in 1..(e.i - 1) :
                             joined[j].r.robot_id # e.x.r.robot_id)

\* Mutant: photos are joined with JOIN, so a robot without photos has no row.
list_all_robots_InnerJoin(d) ==
    LET groups == SelectSeq(GroupByRobot(RobotsJoinCategories(d)),
                            LAMBDA g : CountPhotos(d, g.x.r.robot_id) > 0)
    IN SortRows([i \in 1..Len(groups) |->
           LET x == groups[i].x IN
           [robot_id |-> x.r.robot_id, manufacturer |-> x.r.manufacturer,
            model_name |-> x.r.model_name, robot_type |-> x.r.robot_type,
            year_released |-> x.r.year_released,
            category_name |-> x.rc.category_name,
            photo_count |-> CountPhotos(d, x.r.robot_id)]])

list_all_robots(d) ==
    LET groups == GroupByRobot(RobotsJoinCategories(d))
    IN SortRows([i \in 1..Len(groups) |->
           LET x == groups[i].x IN
           [robot_id |-> x.r.robot_id, manufacturer |-> x.r.manufacturer,
            model_name |-> x.r.model_name, robot_type |-> x.r.robot_type,
            year_released |-> x.r.year_released,
            category_name |-> x.rc.category_name,
            photo_count |-> CountPhotos(d, x.r.robot_id)]])

\* FROM robot_categories rc LEFT JOIN robots r ON rc.category_id = r.category_id
\*                          LEFT JOIN photos p ON r.robot_id = p.robot_id
\* The joined rows of category row rc: one per photo of each of its robots,
\* one with a NULL photo for a robot without photos, and one with a NULL robot
\* and a NULL photo when the category has no robot. photo_id 0 stands for NULL.
CategoryJoinPhotos(d, rc) ==
    LET rs == SelectSeq(d.robots, LAMBDA r : r.category_id = rc.category_id)
        PhotosOf(r) == SelectSeq(d.photos, LAMBDA p : p.robot_id = r.robot_id)
    IN IF rs = <<>> THEN <<[rc |-> rc, photo_id |-> 0]>>
       ELSE Concat([i \in 1..Len(rs) |->
                LET ps == PhotosOf(rs[i])
                IN IF ps = <<>> THEN <<[rc |-> rc, photo_id |-> 0]>>
                   ELSE [k \in 1..Len(ps) |->
                            [rc |-> rc, photo_id |-> ps[k].photo_id]]])

\* Mutant: both joins are inner joins, so a category without photos has no row.
StatisticsJoin_Inner(d) ==
    SelectSeq(Concat([i \in 1..Len(robot_categories) |->
                         CategoryJoinPhotos(d, robot_categories[i])]),
              LAMBDA x : x.photo_id # 0)

StatisticsJoin(d) ==
    Concat([i \in 1..Len(robot_categories) |->
               CategoryJoinPhotos(d, robot_categories[i])])

\* Mutant: COUNT(*), which counts the rows whose photo is NULL as well.
CountByCategory_Star(joined, category_name) ==
    Len(SelectSeq(joined, LAMBDA x : x.rc.category_name = category_name))

\* COUNT(p.photo_id) of the group of GROUP BY rc.category_name.
CountByCategory(joined, category_name) ==
    Len(SelectSeq(joined, LAMBDA x : /\ x.rc.category_name = category_name
                                     /\ x.photo_id # 0))

KbPerMb == 1024

\* SELECT SUM(file_size_kb) FROM photos
RECURSIVE SumFileSizeKb(_)
SumFileSizeKb(photos) ==
    IF photos = <<>> THEN 0
    ELSE photos[1].file_size_kb + SumFileSizeKb(Tail(photos))

\* round((total_kb or 0) / 1024, 2), in hundredths of a megabyte.
RoundMb(total_kb) == (total_kb * 100 * 2 + KbPerMb) \div (2 * KbPerMb)

\* by_category is dict(cursor.fetchall()): one key per group.
get_statistics(d) ==
    LET joined == StatisticsJoin(d)
        groups == {joined[i].rc.category_name : i \in 1..Len(joined)}
    IN [total_photos |-> Len(d.photos),
        by_category |-> [c \in groups |-> CountByCategory(joined, c)],
        total_robots |-> Len(d.robots),
        total_storage_mb |-> RoundMb(SumFileSizeKb(d.photos))]

----------------------------------------------------------------------------
(* The catalog exports (upload_to_s3.py, generate_static_api.py,          *)
(* marketplace_integrated_v2.py).                                         *)

\* str(n) for n >= 0.
RECURSIVE Str(_)
Str(n) == IF n < 10 THEN <<Digits[n + 1]>>
          ELSE Str(n \div 10) \o <<Digits[(n % 10) + 1]>>

S3_BASE ==
    <<"h","t","t","p","s",":","/","/","r","o","b","o","t","i","c","s","-","m","a","r","k","e","t","p","l","a","c","e","-","p","h","o","t","o","s",".","s","3",".","a","m","a","z","o","n","a","w","s",".","c","o","m","/">>

\* f"https://{BUCKET_NAME}.s3.amazonaws.com/photos/{category}/robot_{robot_id}/{file_name}"
\* with category = category_name.lower().replace(' ', '-')
S3Url(x) ==
    S3_BASE \o <<"p","h","o","t","o","s","/">> \o Replace(Lower(x.rc.category_name), " ", "-")
        \o <<"/","r","o","b","o","t","_">> \o Str(x.r.robot_id) \o <<"/">> \o x.p.file_name

\* upload_photos: photo_urls.json after a run in which the uploads of the
\* photos in uploaded succeed; a photo whose file is missing is skipped. The
\* keys are the photo_ids as json.dump writes them, as texts.
upload_photos(d, fs, uploaded) ==
    LET photos == SelectSeq(PhotosJoinRobots(d),
                            LAMBDA x : /\ x.p.file_path \in DOMAIN fs
                                       /\ x.p.photo_id \in uploaded)
    IN [key \in {Str(photos[i].p.photo_id) : i \in 1..Len(photos)} |->
           S3Url(photos[CHOOSE i \in 1..Len(photos) :
                            Str(photos[i].p.photo_id) = key])]

\* Row a of photos comes before row b under ORDER BY upload_date DESC.
NewerFirst(a, b) == TextLeq(b.upload_date, a.upload_date)

RECURSIVE InsertByDate(_, _)
InsertByDate(row, sorted) ==
    IF sorted = <<>> THEN <<row>>
    ELSE IF NewerFirst(sorted[1], row)
    THEN <<sorted[1]>> \o InsertByDate(row, Tail(sorted))
    ELSE <<row>> \o sorted

RECURSIVE SortByDate(_)
SortByDate(rows) ==
    IF rows = <<>> THEN <<>>
    ELSE InsertByDate(rows[Len(rows)],
                      SortByDate(SubSeq(rows, 1, Len(rows) - 1)))

\* SELECT photo_id ... FROM photos WHERE robot_id = ? ORDER BY upload_date DESC
\* (rows of one date come in rowid order).
SelectRobotPhotos(d, robot_id) ==
    SortByDate(SelectSeq(d.photos, LAMBDA p : p.robot_id = robot_id))

\* f"https://via.placeholder.com/400x300?text={manufacturer}+{model_name}"
Placeholder(robot) ==
    <<"h","t","t","p","s",":","/","/","v","i","a",".","p","l","a","c","e","h","o","l","d","e","r",".","c","o","m","/","4","0","0","x","3","0","0","?","t","e","x","t","=">>
        \o robot.manufacturer \o <<"+">> \o robot.model_name

MinImages == 4

\* while len(urls) < 4: urls.append(urls[0])
RECURSIVE PadImages(_)
PadImages(urls) ==
    IF Len(urls) < MinImages THEN PadImages(Append(urls, urls[1])) ELSE urls

\* The product record of a robot, without the fields that are the same text
\* for every robot (price, rating, features, ...).
Product(robot, urls, photo_count) ==
    LET padded == PadImages(IF urls = <<>> THEN <<Placeholder(robot)>> ELSE urls)
    IN [id |-> robot.robot_id, name |-> robot.model_name,
        vendor |-> robot.manufacturer, image |-> padded[1],
        images |-> SubSeq(padded, 1, MinImages),
        category |-> robot.category_name, type |-> robot.robot_type,
        photos |-> photo_count]

\* generate_static_api.py: one product per row of list_all_robots, its URLs
\* looked up in photo_urls.json.
generate_static_api(d, photo_urls) ==
    LET robots_data == list_all_robots(d)
    IN [i \in 1..Len(robots_data) |->
           LET photos == SelectRobotPhotos(d, robots_data[i].robot_id)
               mapped == SelectSeq(photos, LAMBDA p :
                                       Str(p.photo_id) \in DOMAIN photo_urls)
               s3_urls == [k \in 1..Len(mapped) |->
                              photo_urls[Str(mapped[k].photo_id)]]
           IN Product(robots_data[i], s3_urls, Len(photos))]

\* f"/api/photo/{photo_id}"
ApiPhotoUrl(photo_id) == <<"/","a","p","i","/","p","h","o","t","o","/">> \o Str(photo_id)

\* get_database_robots: one product per row of list_all_robots.
get_database_robots(d) ==
    LET robots_data == list_all_robots(d)
    IN [i \in 1..Len(robots_data) |->
           LET photos == SelectRobotPhotos(d, robots_data[i].robot_id)
               urls == [k \in 1..Len(photos) |-> ApiPhotoUrl(photos[k].photo_id)]
           IN Product(robots_data[i], urls, robots_data[i].photo_count)]

----------------------------------------------------------------------------
(* The writing operations, as functions of the connection's tables. *)

Raised(d, error) == [ok |-> FALSE, error |-> error, ret |-> 0, db |-> d]
Returned(d, ret) == [ok |-> TRUE, error |-> "", ret |-> ret, db |-> d]

\* Mutant: the "if not result" test is missing and an unknown category is
\* inserted as a NULL category_id.
add_robot_Unchecked(d, category_name, manufacturer, model_name, robot_type, year_released, specifications) ==
    LET result == SelectCategoryId(category_name)
        robot_id == NextRowId(RobotIds(d))
        row == [robot_id |-> robot_id,
                category_id |-> IF result = <<>> THEN 0 ELSE result[1].category_id,
                manufacturer |-> manufacturer, model_name |-> model_name,
                robot_type |-> robot_type, year_released |-> year_released,
                specifications |-> specifications]
    IN Returned([d EXCEPT !.robots = Append(@, row)], robot_id)

add_robot(d, category_name, manufacturer, model_name, robot_type, year_released, specifications) ==
    LET result == SelectCategoryId(category_name)
        robot_id == NextRowId(RobotIds(d))
        row == [robot_id |-> robot_id, category_id |-> result[1].category_id,
                manufacturer |-> manufacturer, model_name |-> model_name,
                robot_type |-> robot_type, year_released |-> year_released,
                specifications |-> specifications]
    IN IF result = <<>>
       THEN Raised(d, "ValueError")
       ELSE Returned([d EXCEPT !.robots = Append(@, row)], robot_id)

\* Mutant: a plain INSERT that adds a row whether or not the name is there.
InsertOrIgnoreTag_Always(tags, tag_name) ==
    Append(tags, [tag_id |-> NextRowId({tags[i].tag_id : i \in 1..Len(tags)}),
                  tag_name |-> tag_name])

\* INSERT OR IGNORE INTO tags (tag_name) VALUES (?)
InsertOrIgnoreTag(tags, tag_name) ==
    IF TagConflict(tags, tag_name) THEN tags
    ELSE Append(tags, [tag_id |-> NextRowId({tags[i].tag_id : i \in 1..Len(tags)}),
                       tag_name |-> tag_name])

\* Mutant: cursor.lastrowid is taken for the tag_id, which is the newest tag
\* row when the INSERT OR IGNORE was ignored.
SelectTagId_LastRowId(tags, tag_name) ==
    Max({tags[i].tag_id : i \in 1..Len(tags)})

\* Mutant: the name is looked up without regard to case.
SelectTagId_NoCase(tags, tag_name) ==
    SelectSeq(tags, LAMBDA t : Lower(t.tag_name) = Lower(tag_name))[1].tag_id

\* SELECT tag_id FROM tags WHERE tag_name = ?  and fetchone()[0]
SelectTagId(tags, tag_name) ==
    SelectSeq(tags, LAMBDA t : t.tag_name = tag_name)[1].tag_id

\* INSERT OR IGNORE INTO photo_tags (photo_id, tag_id) VALUES (?, ?)
\* connect() does not turn foreign keys on, so photo_id is not looked up.
InsertOrIgnoreLink(photo_tags, photo_id, tag_id) ==
    IF LinkConflict(photo_tags, photo_id, tag_id) THEN photo_tags
    ELSE LET row == [photo_id |-> photo_id, tag_id |-> tag_id]
         IN [pt \in DOMAIN photo_tags \cup {row} |->
                IF pt = row THEN 1 ELSE photo_tags[pt]]

\* The tables after add_tag_to_photo (its commit is the caller's step).
add_tag_to_photo(d, photo_id, tag_name) ==
    LET tags1 == InsertOrIgnoreTag(d.tags, tag_name)
        tag_id == SelectTagId(tags1, tag_name)
    IN [d EXCEPT !.tags = tags1,
                 !.photo_tags = InsertOrIgnoreLink(@, photo_id, tag_id)]

\* Mutant: blanks become "-", as in the S3 keys of upload_to_s3.py.
StorageCategory_Dash(category_name) == Replace(Lower(category_name), " ", "-")

\* category = result[0].lower().replace(' ', '_')
StorageCategory(category_name) == Replace(Lower(category_name), " ", "_")

\* file_name = f"{timestamp}_{source_path.name}"
DestFileName(t, source_file) == Strftime(t) \o <<"_">> \o BaseName(source_file)

\* dest_path = self.photo_storage / category / file_name
DestDir(category_name) == JoinPath(PhotoStorage, StorageCategory(category_name))
DestPath(category_name, file_name) == JoinPath(DestDir(category_name), file_name)

NoCopy(error, fs) ==
    [error |-> error, fs |-> fs, file_name |-> <<>>, dest_path |-> <<>>]

\* Mutant: the "if not result" test is missing, so an unknown robot ends in
\* the TypeError of subscripting None.
add_photo_copy_NoRobotTest(d, fs, t, robot_id, source_file) ==
    LET result == SelectRobotCategory(d, robot_id)
        category_name == result[1].rc.category_name
        file_name == DestFileName(t, source_file)
        dest_path == DestPath(category_name, file_name)
    IN IF source_file \notin DOMAIN fs THEN NoCopy("FileNotFoundError", fs)
       ELSE IF result = <<>> THEN NoCopy("TypeError", fs)
       ELSE IF ~CanCopyTo(DestDir(category_name))
       THEN NoCopy("FileNotFoundError", fs)
       ELSE [error |-> "", fs |-> CopyFile(fs, source_file, dest_path),
             file_name |-> file_name, dest_path |-> dest_path]

\* Mutant: the source is tested only after the robot has been looked up and
\* the destination file has been opened for writing.
add_photo_copy_LateSourceTest(d, fs, t, robot_id, source_file) ==
    LET result == SelectRobotCategory(d, robot_id)
        category_name == result[1].rc.category_name
        file_name == DestFileName(t, source_file)
        dest_path == DestPath(category_name, file_name)
    IN IF result = <<>> THEN NoCopy("ValueError", fs)
       ELSE IF ~CanCopyTo(DestDir(category_name))
       THEN NoCopy("FileNotFoundError", fs)
       ELSE IF source_file \notin DOMAIN fs
       THEN NoCopy("FileNotFoundError",
                   [p \in DOMAIN fs \cup {dest_path} |->
                       IF p = dest_path THEN [data |-> "", size |-> 0] ELSE fs[p]])
       ELSE [error |-> "", fs |-> CopyFile(fs, source_file, dest_path),
             file_name |-> file_name, dest_path |-> dest_path]

\* Mutant: a missing source is reported as ValueError, as a missing robot is.
add_photo_copy_SourceValueError(d, fs, t, robot_id, source_file) ==
    LET result == SelectRobotCategory(d, robot_id)
        category_name == result[1].rc.category_name
        file_name == DestFileName(t, source_file)
        dest_path == DestPath(category_name, file_name)
    IN IF source_file \notin DOMAIN fs THEN NoCopy("ValueError", fs)
       ELSE IF result = <<>> THEN NoCopy("ValueError", fs)
       ELSE IF ~CanCopyTo(DestDir(category_name))
       THEN NoCopy("FileNotFoundError", fs)
       ELSE [error |-> "", fs |-> CopyFile(fs, source_file, dest_path),
             file_name |-> file_name, dest_path |-> dest_path]

\* The first part of add_photo, up to and including the copy: the error it
\* raises ("" when it goes on) and the file system it leaves.
add_photo_copy(d, fs, t, robot_id, source_file) ==
    LET result == SelectRobotCategory(d, robot_id)
        category_name == result[1].rc.category_name
        file_name == DestFileName(t, source_file)
        dest_path == DestPath(category_name, file_name)
    IN IF source_file \notin DOMAIN fs THEN NoCopy("FileNotFoundError", fs)
       ELSE IF result = <<>> THEN NoCopy("ValueError", fs)
       ELSE IF ~CanCopyTo(DestDir(category_name))
       THEN NoCopy("FileNotFoundError", fs)
       ELSE [error |-> "", fs |-> CopyFile(fs, source_file, dest_path),
             file_name |-> file_name, dest_path |-> dest_path]

\* Mutant: the file_path column gets the file name, not the destination path.
InsertPhoto_NameAsPath(d, fs, t, c) ==
    [d EXCEPT !.photos = Append(@,
        [photo_id |-> NextRowId(PhotoIds(d)), robot_id |-> c.robot_id,
         file_name |-> c.file_name, file_path |-> c.file_name,
         upload_date |-> IsoDate(t), photo_type |-> c.photo_type,
         file_size_kb |-> fs[c.dest_path].size \div BytesPerKb,
         description |-> c.description, photographer |-> c.photographer])]

\* Mutant: an upsert on file_path, which rewrites the row that has the path.
InsertPhoto_Upsert(d, fs, t, c) ==
    IF \E i \in 1..Len(d.photos) : d.photos[i].file_path = c.dest_path
    THEN [d EXCEPT !.photos =
             [i \in 1..Len(d.photos) |->
                 IF d.photos[i].file_path = c.dest_path
                 THEN [d.photos[i] EXCEPT !.robot_id = c.robot_id,
                                          !.upload_date = IsoDate(t)]
                 ELSE d.photos[i]]]
    ELSE [d EXCEPT !.photos = Append(@,
             [photo_id |-> NextRowId(PhotoIds(d)), robot_id |-> c.robot_id,
              file_name |-> c.file_name, file_path |-> c.dest_path,
              upload_date |-> IsoDate(t), photo_type |-> c.photo_type,
              file_size_kb |-> fs[c.dest_path].size \div BytesPerKb,
              description |-> c.description, photographer |-> c.photographer])]

\* INSERT INTO photos (...) VALUES (...)
InsertPhoto(d, fs, t, c) ==
    [d EXCEPT !.photos = Append(@,
        [photo_id |-> NextRowId(PhotoIds(d)), robot_id |-> c.robot_id,
         file_name |-> c.file_name, file_path |-> c.dest_path,
         upload_date |-> IsoDate(t), photo_type |-> c.photo_type,
         file_size_kb |-> fs[c.dest_path].size \div BytesPerKb,
         description |-> c.description, photographer |-> c.photographer])]

----------------------------------------------------------------------------
(* The inputs the callers choose from. *)

LowerDrones == <<"d","r","o","n","e","s">>
CategoryInputs == {Drones, RoboticArms, LowerDrones}
ManufacturerInputs == {<<"A","c","m","e">>}
ModelInputs == {<<"X","1">>}
RobotTypeInputs == {<<"q","u","a","d">>}

FileA == <<"u","/","a",".","j","p","g">>
FileMissing == <<"u","/","c",".","j","p","g">>
SourceInputs == {FileA, FileMissing}

Aerial == <<"a","e","r","i","a","l">>
FourK == <<"4","k">>
TagNames == {Aerial, FourK}
TagListInputs == {NoList, <<Aerial>>, <<Aerial, FourK>>}

General == <<"g","e","n","e","r","a","l">>

RobotIdInputs == 1..(MaxRobots + 1)
PhotoIdInputs == 1..MaxPhotos

\* The files on disk before any upload.
SourceFiles == [p \in {FileA} |-> [data |-> "A", size |-> 3000]]

\* The files in photo storage.
Stored(fs) == DOMAIN fs \ DOMAIN SourceFiles

----------------------------------------------------------------------------
(* The state machine. *)

NoCall ==
    [robot_id |-> 0, source_file |-> <<>>, photo_type |-> <<>>,
     description |-> None, tags |-> NoList, photographer |-> None,
     file_name |-> <<>>, dest_path |-> <<>>, photo_id |-> 0, k |-> 0,
     before |-> <<>>]

Outcome(op, ok, error, ret, changed) ==
    [op |-> op, ok |-> ok, error |-> error, ret |-> ret, changed |-> changed]
    \* changed: whether an add_tag_to_photo call wrote a row (FALSE elsewhere)

\* The connections other than self.conn: each slot is a caller (a script or a
\* web request) with a RoboticsPhotoDatabase of its own on the same file.
NumSlots == 2
Slots == 1..NumSlots

\* request.files and request.form of an upload request.
NoForm ==
    [has_file |-> FALSE, filename |-> <<>>, data |-> "", size |-> 0,
     robot_id |-> None, tags |-> None]

IdleSlot ==
    [stage |-> "idle",      \* where the slot's call or handler stands
     form |-> NoForm,       \* the request it serves
     open |-> FALSE,        \* its connection is open
     view |-> EmptyDb,      \* the tables of its open transaction
     frame |-> NoCall,      \* the frame of its add_photo call
     temp_path |-> <<>>,    \* the upload handler's temp_path
     status |-> 0,          \* the HTTP status of its response (0: none yet)
     error |-> ""]          \* the error its call raised

\* connect() on a database that initialize_database has set up.
Init ==
    /\ committed = EmptyDb
    /\ conn = EmptyDb
    /\ files = SourceFiles
    /\ now = 0
    /\ pc = "idle"
    /\ call = NoCall
    /\ last = Outcome("connect", TRUE, "", 0, FALSE)
    /\ reqs = [i \in Slots |-> IdleSlot]
    /\ lock = 0

\* add_robot, with its commit.
AddRobot(category_name, manufacturer, model_name, robot_type) ==
    /\ pc = "idle"
    /\ Len(conn.robots) < MaxRobots
    /\ LET res == add_robot(conn, category_name, manufacturer, model_name,
                            robot_type, 0, None)
       IN /\ conn' = res.db
          /\ committed' = IF res.ok THEN res.db ELSE committed
          /\ last' = Outcome("add_robot", res.ok, res.error, res.ret, FALSE)
    /\ UNCHANGED <<files, now, pc, call>>
    /\ UNCHANGED peers

\* add_photo from its entry to the copy into photo storage.
AddPhotoBegin(robot_id, source_file, tags) ==
    /\ pc = "idle"
    /\ Len(conn.photos) < MaxPhotos
    /\ Cardinality(Stored(files)) < MaxStored
    /\ LET res == add_photo_copy(conn, files, now, robot_id, source_file)
       IN /\ files' = res.fs
          /\ IF res.error # ""
             THEN /\ last' = Outcome("add_photo", FALSE, res.error, 0, FALSE)
                  /\ UNCHANGED <<pc, call>>
             ELSE /\ pc' = "copied"
                  /\ call' = [robot_id |-> robot_id, source_file |-> source_file,
                              photo_type |-> General, description |-> None,
                              tags |-> tags, photographer |-> None,
                              file_name |-> res.file_name,
                              dest_path |-> res.dest_path,
                              photo_id |-> 0, k |-> 1,
                              before |-> list_all_robots(conn)]
                  /\ UNCHANGED last
    /\ UNCHANGED <<committed, conn, now>>
    /\ UNCHANGED peers

\* add_photo: the stat() of the copy and the INSERT of the photo row, which
\* opens the connection's transaction.
AddPhotoInsert ==
    /\ pc = "copied"
    /\ LET photo_id == NextRowId(PhotoIds(conn))
       IN /\ conn' = InsertPhoto(conn, files, now, call)
          /\ call' = [call EXCEPT !.photo_id = photo_id]
    /\ pc' = IF Truthy(call.tags) THEN "tags" ELSE "commit"
    /\ UNCHANGED <<committed, files, now, last>>
    /\ UNCHANGED peers

\* add_photo: one turn of "for tag_name in tags: self.add_tag_to_photo(...)",
\* whose last statement is self.conn.commit().
AddPhotoTag ==
    /\ pc = "tags"
    /\ conn' = add_tag_to_photo(conn, call.photo_id, call.tags[call.k])
    /\ committed' = conn'
    /\ call' = [call EXCEPT !.k = @ + 1]
    /\ pc' = IF call.k = Len(call.tags) THEN "commit" ELSE "tags"
    /\ UNCHANGED <<files, now, last>>
    /\ UNCHANGED peers

\* add_photo: the final self.conn.commit() and the return.
AddPhotoCommit ==
    /\ pc = "commit"
    /\ committed' = conn
    /\ last' = Outcome("add_photo", TRUE, "", call.photo_id, FALSE)
    /\ pc' = "idle"
    /\ call' = NoCall
    /\ UNCHANGED <<conn, files, now>>
    /\ UNCHANGED peers

\* add_photo: a statement after the copy raises (stat, execute or commit:
\* OSError, sqlite3.Error); nothing catches it, and the connection keeps
\* what its open transaction holds.
AddPhotoRaise ==
    /\ pc \in {"copied", "tags", "commit"}
    /\ last' = Outcome("add_photo", FALSE, "Error", 0, FALSE)
    /\ pc' = "idle"
    /\ call' = NoCall
    /\ UNCHANGED <<committed, conn, files, now>>
    /\ UNCHANGED peers

\* add_tag_to_photo called on its own, with its commit.
AddTagToPhoto(photo_id, tag_name) ==
    /\ pc = "idle"
    /\ Cardinality(DOMAIN add_tag_to_photo(conn, photo_id, tag_name).photo_tags)
           <= MaxLinks
    /\ conn' = add_tag_to_photo(conn, photo_id, tag_name)
    /\ committed' = conn'
    /\ last' = Outcome("add_tag_to_photo", TRUE, "", 0, conn' # conn)
    /\ UNCHANGED <<files, now, pc, call>>
    /\ UNCHANGED peers

\* close() then connect(): the open transaction is rolled back.
Reconnect ==
    /\ pc = "idle"
    /\ conn' = committed
    /\ last' = Outcome("connect", TRUE, "", 0, FALSE)
    /\ UNCHANGED <<committed, files, now, pc, call>>
    /\ UNCHANGED peers

\* A second passes.
Tick ==
    /\ now < MaxClock
    /\ now' = now + 1
    /\ UNCHANGED <<committed, conn, files, pc, call, last>>
    /\ UNCHANGED peers

Next ==
    \/ \E c \in CategoryInputs, m \in ManufacturerInputs, n \in ModelInputs,
          t \in RobotTypeInputs : AddRobot(c, m, n, t)
    \/ \E r \in RobotIdInputs, s \in SourceInputs, t \in TagListInputs :
          AddPhotoBegin(r, s, t)
    \/ AddPhotoInsert
    \/ AddPhotoTag
    \/ AddPhotoCommit
    \/ AddPhotoRaise
    \/ \E p \in PhotoIdInputs, t \in TagNames : AddTagToPhoto(p, t)
    \/ Reconnect
    \/ Tick

Spec == Init /\ [][Next]_vars

\* The catalog as the queries see it: robots of several manufacturers and
\* models, and photos added by calls that run to their end.
DJI == <<"D","J","I">>
CatalogManufacturerInputs == ManufacturerInputs \cup {DJI}
CatalogModelInputs == ModelInputs \cup {<<"M","2">>}

NextCatalog ==
    \/ \E c \in CategoryInputs, m \in CatalogManufacturerInputs,
          n \in CatalogModelInputs, t \in RobotTypeInputs : AddRobot(c, m, n, t)
    \/ \E r \in RobotIdInputs, t \in TagListInputs : AddPhotoBegin(r, FileA, t)
    \/ AddPhotoInsert
    \/ AddPhotoTag
    \/ AddPhotoCommit

SpecCatalog == Init /\ [][NextCatalog]_vars

\* The component with robots of every category and with tag names that
\* differ only in letter case.
AerialCap == <<"A","e","r","i","a","l">>
WideCategoryInputs == {Drones, AMRs, RoboticArms}
WideTagNames == {Aerial, AerialCap}
WideTagListInputs == {NoList, <<Aerial, AerialCap>>}

NextWide ==
    \/ \E c \in WideCategoryInputs, m \in ManufacturerInputs, n \in ModelInputs,
          t \in RobotTypeInputs : AddRobot(c, m, n, t)
    \/ \E r \in RobotIdInputs, t \in WideTagListInputs :
          AddPhotoBegin(r, FileA, t)
    \/ AddPhotoInsert
    \/ AddPhotoTag
    \/ AddPhotoCommit
    \/ \E p \in PhotoIdInputs, t \in WideTagNames : AddTagToPhoto(p, t)
    \/ Tick

SpecWide == Init /\ [][NextWide]_vars

----------------------------------------------------------------------------
(* Several connections on one database file. *)

\* Mutant: no write lock, every connection writes from what it last read.
CanWrite_Unlocked(i) == TRUE

\* SQLite lets one connection write at a time: the INSERT of a connection
\* waits while another connection's transaction holds the write lock.
CanWrite(i) == lock \in {0, i}

\* The tables as the connection of slot i reads them: the database file, and
\* its own open transaction when it has one.
View(i) == IF lock = i THEN reqs[i].view ELSE committed

\* The slot after the first part of add_photo (the checks and the copy).
EnterAddPhoto(r, res, robot_id, source_file, tags) ==
    IF res.error # ""
    THEN [r EXCEPT !.stage = "raised", !.error = res.error, !.open = TRUE]
    ELSE [r EXCEPT !.stage = "copied", !.open = TRUE,
                   !.frame = [robot_id |-> robot_id,
                              source_file |-> source_file,
                              photo_type |-> General, description |-> None,
                              tags |-> tags, photographer |-> None,
                              file_name |-> res.file_name,
                              dest_path |-> res.dest_path,
                              photo_id |-> 0, k |-> 1, before |-> <<>>]]

\* A caller connects and calls add_photo: from its entry to the copy.
CallAddPhoto(i, robot_id, source_file, tags) ==
    /\ reqs[i].stage = "idle"
    /\ LET res == add_photo_copy(View(i), files, now, robot_id, source_file)
       IN /\ files' = res.fs
          /\ reqs' = [reqs EXCEPT ![i] =
                         EnterAddPhoto(reqs[i], res, robot_id, source_file, tags)]
    /\ UNCHANGED <<committed, conn, now, pc, call, last, lock>>

\* add_photo on connection i: the stat() of the copy and the INSERT of the
\* photo row, which takes the write lock for the connection's transaction.
ConnInsert(i) ==
    /\ reqs[i].stage = "copied"
    /\ CanWrite(i)
    /\ LET r == reqs[i]
           d == View(i)
       IN reqs' = [reqs EXCEPT ![i] =
              [r EXCEPT !.view = InsertPhoto(d, files, now, r.frame),
                        !.frame = [r.frame EXCEPT
                                      !.photo_id = NextRowId(PhotoIds(d))],
                        !.stage = IF Truthy(r.frame.tags) THEN "tags"
                                  ELSE "commit"]]
    /\ lock' = i
    /\ UNCHANGED <<committed, conn, files, now, pc, call, last>>

\* add_photo on connection i: one add_tag_to_photo, whose commit ends the
\* transaction and releases the write lock.
ConnTag(i) ==
    /\ reqs[i].stage = "tags"
    /\ CanWrite(i)
    /\ LET r == reqs[i]
       IN /\ committed' = add_tag_to_photo(View(i), r.frame.photo_id,
                                           r.frame.tags[r.frame.k])
          /\ reqs' = [reqs EXCEPT ![i] =
                 [r EXCEPT !.view = EmptyDb,
                           !.frame = [r.frame EXCEPT !.k = @ + 1],
                           !.stage = IF r.frame.k = Len(r.frame.tags)
                                     THEN "commit" ELSE "tags"]]
    /\ lock' = 0
    /\ UNCHANGED <<conn, files, now, pc, call, last>>

\* add_photo on connection i: the final commit and the return.
ConnCommit(i) ==
    /\ reqs[i].stage = "commit"
    /\ committed' = View(i)
    /\ reqs' = [reqs EXCEPT ![i] = [@ EXCEPT !.view = EmptyDb,
                                             !.stage = "returned"]]
    /\ lock' = IF lock = i THEN 0 ELSE lock
    /\ UNCHANGED <<conn, files, now, pc, call, last>>

\* The database and the files the concurrent callers start from: two robots,
\* and two files to add.
SeededDb ==
    add_robot(add_robot(EmptyDb, Drones, <<"A","c","m","e">>, <<"X","1">>,
                        None, 0, None).db,
              RoboticArms, DJI, <<"M","2">>, None, 0, None).db

FileB == <<"u","/","b",".","j","p","g">>
\* A file named as FileA, in another directory and with other bytes.
FileC == <<"v","/","a",".","j","p","g">>
CallerFiles ==
    [p \in {FileA, FileB, FileC} |->
        IF p = FileA THEN SourceFiles[FileA]
        ELSE IF p = FileB THEN [data |-> "B", size |-> 5000]
        ELSE [data |-> "C", size |-> 7000]]

InitCallers ==
    /\ committed = SeededDb
    /\ conn = SeededDb
    /\ files = CallerFiles
    /\ now = 0
    /\ pc = "idle"
    /\ call = NoCall
    /\ last = Outcome("add_robot", TRUE, "", 2, FALSE)
    /\ reqs = [i \in Slots |-> IdleSlot]
    /\ lock = 0

NextCallers ==
    \/ \E i \in Slots, r \in RobotIds(SeededDb), s \in DOMAIN CallerFiles,
          t \in TagListInputs : CallAddPhoto(i, r, s, t)
    \/ \E i \in Slots : ConnInsert(i)
    \/ \E i \in Slots : ConnTag(i)
    \/ \E i \in Slots : ConnCommit(i)
    \/ Tick

SpecCallers == InitCallers /\ [][NextCallers]_vars

----------------------------------------------------------------------------
(* The web handlers (web_upload_interface.py, marketplace_integrated_v2.py, *)
(* photo_gallery_viewer.py).                                                *)

UPLOAD_FOLDER == <<"/","t","m","p","/","u","p","l","o","a","d","s">>

ALLOWED_EXTENSIONS ==
    { <<"j","p","g">>, <<"j","p","e","g">>, <<"p","n","g">>, <<"g","i","f">>,
      <<"w","e","b","p">> }

\* filename.rsplit('.', 1)[1]: the text after the last ".".
AfterLastDot(filename) ==
    LET dots == {i \in 1..Len(filename) : filename[i] = "."}
    IN SubSeq(filename, Max(dots) + 1, Len(filename))

allowed_file(filename) ==
    /\ \E i \in 1..Len(filename) : filename[i] = "."
    /\ Lower(AfterLastDot(filename)) \in ALLOWED_EXTENSIONS

\* str.strip(chars)
RECURSIVE StripChars(_, _)
StripChars(s, chars) ==
    IF s = <<>> THEN s
    ELSE IF s[1] \in chars THEN StripChars(Tail(s), chars)
    ELSE IF s[Len(s)] \in chars THEN StripChars(SubSeq(s, 1, Len(s) - 1), chars)
    ELSE s

\* werkzeug's secure_filename on the ASCII names of the model: the path
\* separators and blanks become "_", and leading and trailing "." and "_"
\* are dropped.
secure_filename(filename) ==
    StripChars(Replace(Replace(filename, "/", "_"), " ", "_"), {".", "_"})

\* str.split(sep)
RECURSIVE Split(_, _)
Split(s, sep) ==
    IF \E i \in 1..Len(s) : s[i] = sep
    THEN LET n == CHOOSE i \in 1..Len(s) :
                      s[i] = sep /\ \A j \in 1..(i - 1) : s[j] # sep
         IN <<SubSeq(s, 1, n - 1)>> \o Split(SubSeq(s, n + 1, Len(s)), sep)
    ELSE <<s>>

\* tags = request.form.get('tags', '').split(',') if request.form.get('tags')
\*        else None
\* tags = [t.strip() for t in tags if t.strip()] if tags else None
ParseTags(field) ==
    IF field = None \/ field = <<>> THEN NoList
    ELSE LET parts == Split(field, ",")
             stripped == [k \in 1..Len(parts) |-> StripChars(parts[k], {" "})]
         IN SelectSeq(stripped, LAMBDA t : t # <<>>)

IsDigit(c) == \E i \in 1..Len(Digits) : Digits[i] = c

\* int(text) returns for a run of digits (blanks around it allowed) and
\* raises ValueError for any other text.
IsInt(text) ==
    LET t == StripChars(text, {" "})
    IN t # <<>> /\ \A i \in 1..Len(t) : IsDigit(t[i])

RECURSIVE IntOf(_)
IntOf(text) ==
    LET t == StripChars(text, {" "})
    IN IF Len(t) = 1 THEN IndexIn(t[1], Digits) - 1
       ELSE 10 * IntOf(SubSeq(t, 1, Len(t) - 1))
                + IndexIn(t[Len(t)], Digits) - 1

WriteFile(fs, path, contents) ==
    [p \in DOMAIN fs \cup {path} |-> IF p = path THEN contents ELSE fs[p]]

RemoveFile(fs, path) == [p \in DOMAIN fs \ {path} |-> fs[p]]

\* upload_photo, up to file.save(temp_path): the two validations, each
\* answered with 400, and the temporary copy of the upload.
Upload(i, form) ==
    /\ reqs[i].stage = "idle"
    /\ IF \/ ~form.has_file
          \/ form.filename = <<>>
          \/ ~allowed_file(form.filename)
       THEN /\ reqs' = [reqs EXCEPT ![i] = [@ EXCEPT !.stage = "done",
                                                     !.form = form,
                                                     !.status = 400]]
            /\ UNCHANGED files
       ELSE LET temp_path ==
                    JoinPath(UPLOAD_FOLDER, secure_filename(form.filename))
            IN /\ files' = WriteFile(files, temp_path,
                                     [data |-> form.data, size |-> form.size])
               /\ reqs' = [reqs EXCEPT ![i] = [@ EXCEPT !.stage = "saved",
                                                        !.form = form,
                                                        !.temp_path = temp_path]]
    /\ UNCHANGED <<committed, conn, now, pc, call, last, lock>>

\* upload_photo inside its try: connect(), the tags, int(robot_id), and
\* add_photo from its entry to the copy.
UploadAddPhoto(i) ==
    /\ reqs[i].stage = "saved"
    /\ LET r == reqs[i]
           tags == ParseTags(r.form.tags)
       IN IF r.form.robot_id = None
          THEN /\ reqs' = [reqs EXCEPT ![i] = [r EXCEPT !.stage = "raised",
                                                        !.error = "TypeError",
                                                        !.open = TRUE]]
               /\ UNCHANGED files
          ELSE IF ~IsInt(r.form.robot_id)
          THEN /\ reqs' = [reqs EXCEPT ![i] = [r EXCEPT !.stage = "raised",
                                                        !.error = "ValueError",
                                                        !.open = TRUE]]
               /\ UNCHANGED files
          ELSE LET robot_id == IntOf(r.form.robot_id)
                   res == add_photo_copy(View(i), files, now, robot_id,
                                         r.temp_path)
               IN /\ files' = res.fs
                  /\ reqs' = [reqs EXCEPT ![i] =
                         EnterAddPhoto(r, res, robot_id, r.temp_path, tags)]
    /\ UNCHANGED <<committed, conn, now, pc, call, last, lock>>

\* upload_photo: db.close() and the response of the try.
UploadReturn(i) ==
    /\ reqs[i].stage = "returned"
    /\ reqs' = [reqs EXCEPT ![i] = [@ EXCEPT !.stage = "finally",
                                             !.open = FALSE,
                                             !.status = 200]]
    /\ UNCHANGED <<committed, conn, files, now, pc, call, last, lock>>

\* upload_photo: "except Exception" and its response.
UploadExcept(i) ==
    /\ reqs[i].stage = "raised"
    /\ reqs' = [reqs EXCEPT ![i] = [@ EXCEPT !.stage = "finally",
                                             !.status = 500]]
    /\ UNCHANGED <<committed, conn, files, now, pc, call, last, lock>>

\* upload_photo: the finally clause.
UploadFinally(i) ==
    /\ reqs[i].stage = "finally"
    /\ files' = IF reqs[i].temp_path \in DOMAIN files
                THEN RemoveFile(files, reqs[i].temp_path) ELSE files
    /\ reqs' = [reqs EXCEPT ![i] = [@ EXCEPT !.stage = "done"]]
    /\ UNCHANGED <<committed, conn, now, pc, call, last, lock>>

\* The db object of a handler that has returned without close() is closed
\* when the interpreter reclaims it, which rolls its transaction back.
Collect(i) ==
    /\ reqs[i].stage = "done"
    /\ reqs[i].open
    /\ reqs' = [reqs EXCEPT ![i] = [@ EXCEPT !.open = FALSE, !.view = EmptyDb]]
    /\ lock' = IF lock = i THEN 0 ELSE lock
    /\ UNCHANGED <<committed, conn, files, now, pc, call, last>>

\* serve_photo: connect(), SELECT file_path, close(), then the file or 404.
ServePhoto(i, photo_id) ==
    /\ reqs[i].stage = "idle"
    /\ LET result == SelectSeq(View(i).photos,
                               LAMBDA p : p.photo_id = photo_id)
           found == result # <<>> /\ result[1].file_path \in DOMAIN files
       IN reqs' = [reqs EXCEPT ![i] =
              [@ EXCEPT !.stage = "done",
                        !.status = IF found THEN 200 ELSE 404]]
    /\ UNCHANGED <<committed, conn, files, now, pc, call, last, lock>>

\* gallery: connect(), search_photos(), get_statistics(), close(), the page.
Gallery(i) ==
    /\ reqs[i].stage = "idle"
    /\ reqs' = [reqs EXCEPT ![i] = [@ EXCEPT !.stage = "done", !.status = 200]]
    /\ UNCHANGED <<committed, conn, files, now, pc, call, last, lock>>

\* The upload requests the clients send.
AerialAnd4k == <<"a","e","r","i","a","l",","," ","4","k">>

Form(has_file, filename, data, robot_id, tags) ==
    [has_file |-> has_file, filename |-> filename, data |-> data,
     size |-> 3000, robot_id |-> robot_id, tags |-> tags]

UploadInputs ==
    { Form(FALSE, <<>>, "", <<"1">>, None),
      Form(TRUE, <<>>, "", <<"1">>, None),
      Form(TRUE, <<"c",".","t","x","t">>, "T", <<"1">>, None),
      Form(TRUE, <<"a",".","j","p","g">>, "J", <<"1">>, None),
      Form(TRUE, <<"b",".","P","N","G">>, "P", <<"2">>, AerialAnd4k),
      Form(TRUE, <<"a",".","j","p","g">>, "N", None, None),
      Form(TRUE, <<"a",".","j","p","g">>, "X", <<"9">>, None) }

InitWeb ==
    /\ committed = SeededDb
    /\ conn = SeededDb
    /\ files = SourceFiles
    /\ now = 0
    /\ pc = "idle"
    /\ call = NoCall
    /\ last = Outcome("add_robot", TRUE, "", 2, FALSE)
    /\ reqs = [i \in Slots |-> IdleSlot]
    /\ lock = 0

NextWeb ==
    \/ \E i \in Slots, form \in UploadInputs : Upload(i, form)
    \/ \E i \in Slots : UploadAddPhoto(i)
    \/ \E i \in Slots : ConnInsert(i)
    \/ \E i \in Slots : ConnTag(i)
    \/ \E i \in Slots : ConnCommit(i)
    \/ \E i \in Slots : UploadReturn(i)
    \/ \E i \in Slots : UploadExcept(i)
    \/ \E i \in Slots : UploadFinally(i)
    \/ \E i \in Slots : Collect(i)
    \/ \E i \in Slots, photo_id \in PhotoIdInputs : ServePhoto(i, photo_id)
    \/ \E i \in Slots : Gallery(i)
    \/ Tick

SpecWeb == InitWeb /\ [][NextWeb]_vars

----------------------------------------------------------------------------
(* Properties. *)

CategoryNames == {robot_categories[i].category_name : i \in 1..Len(robot_categories)}
CategoryIds == {robot_categories[i].category_id : i \in 1..Len(robot_categories)}

\* The errors that report a failed lookup: FileNotFoundError for a path,
\* ValueError("... not found") for a category name or a robot_id.
NotFoundErrors == {"FileNotFoundError", "ValueError"}

\* Tag tag_name has a row in d and that row is linked to photo_id.
Linked(d, photo_id, tag_name) ==
    \E j \in 1..Len(d.tags) :
        /\ d.tags[j].tag_name = tag_name
        /\ [photo_id |-> photo_id, tag_id |-> d.tags[j].tag_id]
               \in DOMAIN d.photo_tags

\* C1: add_photo is all-or-nothing in the database file: while a call is under
\* way, and when it has raised, the committed tables hold the call's photo row
\* only together with every tag row and tag link of the call.
C1_AddPhotoAllOrNothing ==
    (pc # "idle" /\ call.photo_id \in PhotoIds(committed)) =>
        (Truthy(call.tags) =>
            \A k \in 1..Len(call.tags) :
                Linked(committed, call.photo_id, call.tags[k]))

\* C2: add_photo with a robot_id that matches no robot row raises a not-found
\* error, copies no file and inserts no row.
C2_UnknownRobotFails ==
    [][\A r \in RobotIdInputs, s \in SourceInputs, t \in TagListInputs :
          (r \notin RobotIds(conn) /\ AddPhotoBegin(r, s, t)) =>
              /\ last'.op = "add_photo" /\ ~last'.ok
              /\ last'.error \in NotFoundErrors
              /\ files' = files
              /\ conn' = conn /\ committed' = committed
              /\ pc' = "idle"]_vars

C2_Witness ==
    /\ last.op = "add_photo" /\ last.error = "ValueError"
    /\ Len(committed.robots) >= 1

\* C3: add_photo with a source path that is not on disk raises a not-found
\* error before any row is inserted and any file copied, whatever robot_id is.
C3_MissingSourceFails ==
    [][\A r \in RobotIdInputs, s \in SourceInputs, t \in TagListInputs :
          (s \notin DOMAIN files /\ AddPhotoBegin(r, s, t)) =>
              /\ last'.op = "add_photo" /\ ~last'.ok
              /\ last'.error \in NotFoundErrors
              /\ files' = files
              /\ conn' = conn /\ committed' = committed
              /\ pc' = "idle"]_vars

C3_Witness ==
    /\ last.op = "add_photo" /\ last.error = "FileNotFoundError"
    /\ Len(committed.robots) >= 1

\* C4: add_robot resolves its category by exact name: without a category row
\* of exactly that name it raises the not-found error and leaves the robots
\* table alone; otherwise it inserts exactly one robot row that references the
\* category of that name and returns that row's robot_id.
C4_AddRobotByExactName ==
    [][\A c \in CategoryInputs, m \in ManufacturerInputs, n \in ModelInputs,
          t \in RobotTypeInputs :
          AddRobot(c, m, n, t) =>
              IF c \notin CategoryNames
              THEN /\ ~last'.ok /\ last'.error \in NotFoundErrors
                   /\ conn'.robots = conn.robots
                   /\ committed'.robots = committed.robots
              ELSE /\ last'.ok
                   /\ Len(conn'.robots) = Len(conn.robots) + 1
                   /\ SubSeq(conn'.robots, 1, Len(conn.robots)) = conn.robots
                   /\ LET row == conn'.robots[Len(conn'.robots)]
                      IN /\ row.robot_id = last'.ret
                         /\ row.robot_id \notin RobotIds(conn)
                         /\ \E i \in 1..Len(robot_categories) :
                               /\ robot_categories[i].category_name = c
                               /\ robot_categories[i].category_id = row.category_id
                   /\ committed'.robots = conn'.robots]_vars

C4_Witness ==
    /\ last.op = "add_robot" /\ ~last.ok
    /\ Len(committed.robots) >= 1

\* C5: every robot row's category_id is that of a category row and every photo
\* row's robot_id is that of a robot row, in the tables as committed and as the
\* connection sees them; a write that would break either reference raises.
ReferencesHold(d) ==
    /\ \A i \in 1..Len(d.robots) : d.robots[i].category_id \in CategoryIds
    /\ \A i \in 1..Len(d.photos) : d.photos[i].robot_id \in RobotIds(d)

C5_ReferencesHold ==
    /\ ReferencesHold(committed)
    /\ ReferencesHold(conn)
    /\ \A c \in CategoryInputs :
          c \notin CategoryNames =>
              ~add_robot(conn, c, <<>>, <<>>, <<>>, 0, None).ok
    /\ \A r \in RobotIdInputs :
          r \notin RobotIds(conn) =>
              add_photo_copy(conn, files, now, r, FileA).error # ""

\* Robots and photos are committed and further writes were refused.
C5_Witness ==
    /\ pc = "idle"
    /\ Len(committed.robots) >= 2
    /\ Len(committed.photos) >= 1
    /\ last.op = "add_photo" /\ last.error = "ValueError"

\* C6: every committed photo row's file_path names a file that is in photo
\* storage: the copy is made before the row is inserted and committed.
C6_CommittedPhotoHasFile ==
    \A i \in 1..Len(committed.photos) :
        committed.photos[i].file_path \in Stored(files)

\* A failure between copy and commit has left a stored file without a row,
\* beside a committed photo.
C6_Witness ==
    /\ pc = "idle" /\ conn = committed
    /\ Len(committed.photos) >= 1
    /\ \E f \in Stored(files) :
          \A i \in 1..Len(committed.photos) : committed.photos[i].file_path # f

RECURSIVE SumOver(_, _)
SumOver(bag, S) ==
    IF S = {} THEN 0
    ELSE LET x == CHOOSE x \in S : TRUE IN bag[x] + SumOver(bag, S \ {x})

TagRowsNamed(d, tag_name) == {j \in 1..Len(d.tags) : d.tags[j].tag_name = tag_name}

\* The number of photo_tags rows between photo_id and a tag row named tag_name.
LinkRows(d, photo_id, tag_name) ==
    SumOver(d.photo_tags,
            {pt \in DOMAIN d.photo_tags :
                /\ pt.photo_id = photo_id
                /\ \E j \in TagRowsNamed(d, tag_name) : d.tags[j].tag_id = pt.tag_id})

\* C7: add_tag_to_photo is idempotent: from any reachable tables, for any
\* photo_id and tag_name, a second call leaves the tables as the first left
\* them, with exactly one tag row of that name and exactly one link row
\* between the photo and that tag.
C7_AddTagIdempotent ==
    \A p \in PhotoIdInputs, t \in TagNames :
        LET once == add_tag_to_photo(conn, p, t)
            twice == add_tag_to_photo(once, p, t)
        IN /\ twice = once
           /\ Cardinality(TagRowsNamed(once, t)) = 1
           /\ LinkRows(once, p, t) = 1

\* add_tag_to_photo has been called again with a pair that was linked already.
C7_Witness ==
    /\ last.op = "add_tag_to_photo" /\ ~last.changed
    /\ Cardinality(DOMAIN committed.photo_tags) >= 1

\* C8: after add_robot returns, list_all_robots has one row more than before
\* and exactly one row for the returned robot_id, with the manufacturer, model
\* name, robot type and category given and photo_count 0.
C8_AddRobotListed ==
    [][\A c \in CategoryInputs, m \in ManufacturerInputs, n \in ModelInputs,
          t \in RobotTypeInputs :
          (AddRobot(c, m, n, t) /\ last'.ok) =>
              LET rows == list_all_robots(conn')
                  mine == {i \in 1..Len(rows) : rows[i].robot_id = last'.ret}
              IN /\ Len(rows) = Len(list_all_robots(conn)) + 1
                 /\ Cardinality(mine) = 1
                 /\ \A i \in mine :
                       /\ rows[i].manufacturer = m
                       /\ rows[i].model_name = n
                       /\ rows[i].robot_type = t
                       /\ rows[i].category_name = c
                       /\ rows[i].photo_count = 0]_vars

C8_Witness ==
    /\ last.op = "add_robot" /\ last.ok
    /\ Len(conn.robots) >= 2
    /\ Len(conn.photos) >= 1

SearchIds(rows) == {rows[i].photo_id : i \in 1..Len(rows)}

\* The category names of robot robot_id.
CategoryOf(d, robot_id) ==
    LET rows == SelectRobotCategory(d, robot_id)
    IN {rows[i].rc.category_name : i \in 1..Len(rows)}

\* C9: when add_photo for robot r with tags T returns, list_all_robots gives r
\* a photo_count one greater than when the call began and every other robot
\* the photo_count it had; search_photos(tags=[t]) has the new photo for every
\* t in T; search_photos(category=c) has it for no category c other than r's.
C9_AddPhotoCountedAndFound ==
    [][AddPhotoCommit =>
          LET after == list_all_robots(conn')
              before == call.before
          IN /\ \E i \in 1..Len(after) : after[i].robot_id = call.robot_id
             /\ Len(after) = Len(before)
             /\ \A i \in 1..Len(after) :
                   \E j \in 1..Len(before) :
                       /\ before[j].robot_id = after[i].robot_id
                       /\ after[i].photo_count =
                              before[j].photo_count +
                              (IF after[i].robot_id = call.robot_id THEN 1 ELSE 0)
             /\ Truthy(call.tags) =>
                   \A k \in 1..Len(call.tags) :
                       call.photo_id \in SearchIds(search_photos(
                           committed', None, None, None, <<call.tags[k]>>))
             /\ \A c \in (CategoryNames \cup CategoryInputs)
                          \ CategoryOf(conn', call.robot_id) :
                   call.photo_id \notin SearchIds(search_photos(
                       committed', c, None, None, NoList))]_vars

C9_Witness ==
    /\ last.op = "add_photo" /\ last.ok
    /\ Len(committed.photos) >= 2
    /\ Cardinality(DOMAIN committed.photo_tags) >= 2
    /\ \E i, j \in 1..Len(committed.robots) :
          committed.robots[i].category_id # committed.robots[j].category_id

\* The photo_ids of the photo rows whose robot is in the category named c.
PhotosInCategory(d, c) ==
    {d.photos[i].photo_id : i \in
        {i \in 1..Len(d.photos) :
            \E j \in 1..Len(d.robots), k \in 1..Len(robot_categories) :
                /\ d.robots[j].robot_id = d.photos[i].robot_id
                /\ robot_categories[k].category_id = d.robots[j].category_id
                /\ robot_categories[k].category_name = c}}

\* C10: search_photos without filters returns as many rows as the photos table
\* holds, one per photo; with a category filter every row it returns has that
\* category_name and every photo of a robot in that category is returned.
SearchCoversPhotos(d) ==
    /\ Len(search_photos(d, None, None, None, NoList)) = Len(d.photos)
    /\ SearchIds(search_photos(d, None, None, None, NoList)) = PhotoIds(d)
    /\ \A c \in CategoryNames \cup CategoryInputs :
          LET rows == search_photos(d, c, None, None, NoList)
          IN /\ \A i \in 1..Len(rows) : rows[i].category_name = c
             /\ SearchIds(rows) = PhotosInCategory(d, c)

C10_SearchCoversPhotos == SearchCoversPhotos(conn) /\ SearchCoversPhotos(committed)

C10_Witness ==
    /\ Len(committed.photos) >= 2
    /\ PhotosInCategory(committed, Drones) # {}
    /\ PhotosInCategory(committed, RoboticArms) # {}

\* The filter values the searches below are asked with.
CategoryFilters == {None, Drones}
ManufacturerFilters == {None, <<"A","c">>, DJI}
ModelFilters == {None, <<"M","2">>}
TagFilters == {NoList, <<Aerial>>, <<Aerial, FourK>>}

\* Photo photo_id satisfies the manufacturer (model) filter on its own.
SatisfiesManufacturer(d, photo_id, m) ==
    photo_id \in SearchIds(search_photos(d, None, m, None, NoList))

SatisfiesModel(d, photo_id, n) ==
    photo_id \in SearchIds(search_photos(d, None, None, n, NoList))

\* C11: search_photos returns a photo exactly when the photo satisfies every
\* filter that is supplied: its robot is in the category, its robot's
\* manufacturer and model match, and it is linked to at least one of the
\* supplied tag names.
C11_SearchConjunctive ==
    \A m \in ManufacturerFilters, n \in ModelFilters :
        \E byManufacturer \in
               {{id \in PhotoIds(conn) : SatisfiesManufacturer(conn, id, m)}},
           byModel \in {{id \in PhotoIds(conn) : SatisfiesModel(conn, id, n)}} :
            \A c \in CategoryFilters, T \in TagFilters :
                SearchIds(search_photos(conn, c, m, n, T)) =
                    {id \in PhotoIds(conn) :
                        /\ Truthy(c) => id \in PhotosInCategory(conn, c)
                        /\ Truthy(m) => id \in byManufacturer
                        /\ Truthy(n) => id \in byModel
                        /\ Truthy(T) => \E k \in 1..Len(T) :
                                            Linked(conn, id, T[k])}

\* Two photos of robots of different manufacturers, one of them linked to
\* "aerial" and not to "4k".
C11_Witness ==
    /\ pc = "idle"
    /\ \E id \in PhotoIds(conn) :
          /\ Linked(conn, id, Aerial) /\ ~Linked(conn, id, FourK)
          /\ SatisfiesManufacturer(conn, id, DJI)
    /\ \E id \in PhotoIds(conn) : ~SatisfiesManufacturer(conn, id, DJI)

\* sub occurs in text, character for character.
Contains(sub, text) ==
    \E i \in 0..(Len(text) - Len(sub)) : SubSeq(text, i + 1, i + Len(sub)) = sub

LowerAcme == <<"a","c","m","e">>
MatchFilters == {<<"A","c">>, LowerAcme, <<"_","c">>, <<"x","1">>, <<"M","2">>}

\* The photo_ids of the photo rows whose robot has Field(robot) containing sub.
PhotosOfRobotsWith(d, Field(_), sub) ==
    {d.photos[i].photo_id : i \in
        {i \in 1..Len(d.photos) :
            \E j \in 1..Len(d.robots) :
                /\ d.robots[j].robot_id = d.photos[i].robot_id
                /\ Contains(sub, Field(d.robots[j]))}}

\* C12: the manufacturer and model filters of search_photos are case-sensitive
\* substring matches: a photo is returned exactly when the filter text occurs
\* in its robot's manufacturer (model) with the same letter case, every
\* character of the filter standing for itself.
C12_LiteralSubstringMatch ==
    \A f \in MatchFilters :
        /\ SearchIds(search_photos(conn, None, f, None, NoList)) =
               PhotosOfRobotsWith(conn, LAMBDA r : r.manufacturer, f)
        /\ SearchIds(search_photos(conn, None, None, f, NoList)) =
               PhotosOfRobotsWith(conn, LAMBDA r : r.model_name, f)

\* Every robot row has the category_id of a category row.
EveryRobotHasCategory(d) ==
    \A j \in 1..Len(d.robots) : d.robots[j].category_id \in CategoryIds

\* C13: in every reachable state where every robot has a category, the
\* total_photos of get_statistics equals the sum of its by_category values.
C13_TotalIsSumByCategory ==
    EveryRobotHasCategory(conn) =>
        LET stats == get_statistics(conn)
        IN stats.total_photos =
               SumOver(stats.by_category, DOMAIN stats.by_category)

\* Photos in two categories, and a robot that has none.
C13_Witness ==
    /\ EveryRobotHasCategory(conn)
    /\ get_statistics(conn).total_photos >= 2
    /\ get_statistics(conn).by_category[Drones] >= 1
    /\ get_statistics(conn).by_category[RoboticArms] >= 1

\* C14: by_category has one entry per category row, the categories without
\* robots or photos included with the value 0; each value is the number of
\* photo rows whose robot is in that category; total_robots is the number of
\* robot rows.
C14_ByCategoryPerCategoryRow ==
    LET stats == get_statistics(conn)
    IN /\ DOMAIN stats.by_category = CategoryNames
       /\ Cardinality(DOMAIN stats.by_category) = Len(robot_categories)
       /\ \A c \in CategoryNames :
             stats.by_category[c] = Cardinality(PhotosInCategory(conn, c))
       /\ stats.total_robots = Cardinality(RobotIds(conn))

\* A category with photos, a category whose only robot has no photo, and a
\* category without robots.
C14_Witness ==
    /\ pc = "idle"
    /\ PhotosInCategory(conn, Drones) # {}
    /\ PhotosInCategory(conn, RoboticArms) = {}
    /\ \E j \in 1..Len(conn.robots) : CategoryOf(conn, conn.robots[j].robot_id) = {RoboticArms}
    /\ \A j \in 1..Len(conn.robots) : CategoryOf(conn, conn.robots[j].robot_id) # {AMRs}

\* C15: list_all_robots returns exactly one row per robot row, with the name
\* of the robot's category and a photo_count equal to the number of photo rows
\* that reference the robot; a robot without photos is listed with 0.
C15_OneRowPerRobot ==
    LET rows == list_all_robots(conn)
    IN /\ Len(rows) = Len(conn.robots)
       /\ \A j \in 1..Len(conn.robots) :
             \E i \in 1..Len(rows) :
                 /\ rows[i].robot_id = conn.robots[j].robot_id
                 /\ rows[i].manufacturer = conn.robots[j].manufacturer
                 /\ rows[i].model_name = conn.robots[j].model_name
                 /\ \E k \in 1..Len(robot_categories) :
                       /\ robot_categories[k].category_id =
                              conn.robots[j].category_id
                       /\ robot_categories[k].category_name =
                              rows[i].category_name
                 /\ rows[i].photo_count =
                        Cardinality({n \in 1..Len(conn.photos) :
                            conn.photos[n].robot_id = conn.robots[j].robot_id})

\* A robot with two photos next to a robot with none.
C15_Witness ==
    /\ pc = "idle"
    /\ \E i, j \in 1..Len(list_all_robots(conn)) :
          /\ list_all_robots(conn)[i].photo_count = 2
          /\ list_all_robots(conn)[j].photo_count = 0

\* Row a comes no later than row b by (category_name, manufacturer, model_name).
KeyLeq(a, b) ==
    \/ a.category_name # b.category_name
       /\ TextLeq(a.category_name, b.category_name)
    \/ /\ a.category_name = b.category_name
       /\ a.manufacturer # b.manufacturer
       /\ TextLeq(a.manufacturer, b.manufacturer)
    \/ /\ a.category_name = b.category_name
       /\ a.manufacturer = b.manufacturer
       /\ TextLeq(a.model_name, b.model_name)

\* C16: the rows of list_all_robots are sorted by (category_name,
\* manufacturer, model_name): of two consecutive rows the first has the
\* triple that is less than or equal to the second's.
C16_RobotsSorted ==
    LET rows == list_all_robots(conn)
    IN \A i \in 1..(Len(rows) - 1) : KeyLeq(rows[i], rows[i + 1])

\* Two robots of one category listed against the order they were added in,
\* the manufacturer deciding.
C16_Witness ==
    LET rows == list_all_robots(conn)
    IN /\ Len(rows) = 2
       /\ rows[1].category_name = rows[2].category_name
       /\ rows[1].manufacturer # rows[2].manufacturer
       /\ ~TextLeq(rows[1].model_name, rows[2].model_name)
       /\ rows[1].robot_id > rows[2].robot_id

\* The kind of error each of the three lookup failures is raised with in the
\* current state: add_robot with the unknown category c, add_photo with the
\* unknown robot_id r and a source that exists, add_photo with a source s that
\* does not exist.
UnknownCategoryError(c) ==
    add_robot(conn, c, <<"A","c","m","e">>, <<"X","1">>, None, 0, None).error

UnknownRobotError(r) == add_photo_copy(conn, files, now, r, FileA).error

MissingSourceError(r, s) == add_photo_copy(conn, files, now, r, s).error

\* C17 (as stated): the three lookup failures are raised as errors of three
\* different kinds, so that a caller tells them apart by the kind alone.
C17_LookupErrorsDifferInKind ==
    \A c \in CategoryInputs \ CategoryNames,
       r \in RobotIdInputs \ RobotIds(conn),
       q \in RobotIdInputs, s \in SourceInputs \ DOMAIN files :
        /\ UnknownCategoryError(c) # UnknownRobotError(r)
        /\ UnknownCategoryError(c) # MissingSourceError(q, s)
        /\ UnknownRobotError(r) # MissingSourceError(q, s)

\* C17 (amended): a missing source file is raised as FileNotFoundError, a kind
\* that neither of the other two failures has; an unknown category and an
\* unknown robot are both raised as ValueError.
C17_LookupErrorKinds ==
    \A c \in CategoryInputs \ CategoryNames,
       r \in RobotIdInputs \ RobotIds(conn),
       q \in RobotIdInputs, s \in SourceInputs \ DOMAIN files :
        /\ UnknownCategoryError(c) = "ValueError"
        /\ UnknownRobotError(r) = "ValueError"
        /\ MissingSourceError(q, s) = "FileNotFoundError"

\* add_photo has just failed on a missing source for a robot that exists,
\* after add_robot had succeeded.
C17_Witness ==
    /\ last.op = "add_photo" /\ ~last.ok /\ last.error = "FileNotFoundError"
    /\ Len(conn.robots) >= 1
    /\ FileMissing \notin DOMAIN files

\* Slot i is inside or past an add_photo call that has made its copy.
Copied(i) == reqs[i].stage \in {"copied", "tags", "commit", "returned"}

\* The photo rows of d with the photo_id of slot i's call.
RowsOf(d, i) ==
    SelectSeq(d.photos, LAMBDA p : p.photo_id = reqs[i].frame.photo_id)

\* C19: two add_photo calls on connections of their own, interleaved in any
\* way, whose timestamp-qualified destination file names differ, do not
\* collide (a third call that copies to the path of one of them, the case of
\* C25, set aside): while one of them has not returned, a call in progress can take
\* a step, each keeps the copy of its own source at its destination path, and
\* once a call has
\* returned the database file holds exactly one photo row with its photo_id,
\* that row is its own (robot, file name, path, size), its tags are linked,
\* and the other call's photo_id is a different one.
C19_DistinctNamesDoNotCollide ==
    \A i, j \in Slots :
        (/\ i # j /\ Copied(i) /\ Copied(j)
         /\ reqs[i].frame.file_name # reqs[j].frame.file_name
         /\ \A n \in Slots \ {i, j} :
               Copied(n) => reqs[n].frame.dest_path # reqs[i].frame.dest_path)
        => LET c == reqs[i].frame
           IN /\ c.dest_path \in DOMAIN files
              /\ files[c.dest_path] = CallerFiles[c.source_file]
              /\ reqs[i].stage # "returned" =>
                    ENABLED (\E n \in Slots :
                                ConnInsert(n) \/ ConnTag(n) \/ ConnCommit(n))
              /\ reqs[i].stage = "returned" =>
                    /\ Len(RowsOf(committed, i)) = 1
                    /\ RowsOf(committed, i)[1].robot_id = c.robot_id
                    /\ RowsOf(committed, i)[1].file_name = c.file_name
                    /\ RowsOf(committed, i)[1].file_path = c.dest_path
                    /\ RowsOf(committed, i)[1].file_size_kb =
                           CallerFiles[c.source_file].size \div BytesPerKb
                    /\ Truthy(c.tags) =>
                          \A k \in 1..Len(c.tags) :
                              Linked(committed, c.photo_id, c.tags[k])
                    /\ reqs[j].frame.photo_id # c.photo_id

\* Both calls have returned; they added the same source file for the same
\* robot in different seconds, and the call that copied first inserted last.
C19_Witness ==
    /\ reqs[1].stage = "returned" /\ reqs[2].stage = "returned"
    /\ reqs[1].frame.source_file = reqs[2].frame.source_file
    /\ reqs[1].frame.robot_id = reqs[2].frame.robot_id
    /\ reqs[1].frame.file_name # reqs[2].frame.file_name
    /\ reqs[1].frame.file_name[1] = "0"
    /\ reqs[1].frame.photo_id = 2
    /\ Truthy(reqs[1].frame.tags) /\ Truthy(reqs[2].frame.tags)

\* C18: when a web request handler produces its response, the database
\* connection the handler opened is closed, on every path of the handler, the
\* path of upload_photo on which add_photo or the parsing of the form raises
\* included.
C18_ConnectionClosedAtResponse ==
    \A i \in Slots : reqs[i].status # 0 => ~reqs[i].open

\* The files under photo_storage.
StoredPhotos(fs) ==
    {p \in DOMAIN fs : /\ Len(p) > Len(PhotoStorage)
                       /\ SubSeq(p, 1, Len(PhotoStorage)) = PhotoStorage}

\* The extension of filename (the text after its last dot, in lower case) is
\* one of jpg, jpeg, png, gif, webp.
ExtensionAllowed(filename) ==
    \E n \in 1..Len(filename) :
        /\ filename[n] = "."
        /\ \A k \in (n + 1)..Len(filename) : filename[k] # "."
        /\ Lower(SubSeq(filename, n + 1, Len(filename))) \in
               { <<"j","p","g">>, <<"j","p","e","g">>, <<"p","n","g">>,
                 <<"g","i","f">>, <<"w","e","b","p">> }

\* An upload request that must be rejected: no file part, an empty file name,
\* a disallowed extension, or no robot_id field.
InvalidUpload(form) ==
    \/ ~form.has_file
    \/ form.filename = <<>>
    \/ ~ExtensionAllowed(form.filename)
    \/ form.robot_id = None

\* C20: an upload request with no file part, an empty file name, a disallowed
\* extension or no robot_id is answered with a 4xx status, and no step of its
\* handler stores a file under photo_storage or changes a table.
C20_InvalidUploadRejected ==
    /\ [](\A i \in Slots :
             (InvalidUpload(reqs[i].form) /\ reqs[i].status # 0)
                 => reqs[i].status \in 400..499)
    /\ [][\A i \in Slots :
             (InvalidUpload(reqs'[i].form) /\ reqs'[i] # reqs[i])
                 => /\ committed' = committed
                    /\ StoredPhotos(files') = StoredPhotos(files)]_vars

\* The product records are one per robot row, each with at least MinImages
\* images that pad the list by repeating its first entry and with image the
\* first of them; the placeholder is used exactly when the robot has no photo,
\* and otherwise every entry is Url(p) for a photo p of the robot.
ProductsWellFormed(d, products, Url(_)) ==
    /\ Len(products) = Len(d.robots)
    /\ \A j \in 1..Len(d.robots) :
          Cardinality({i \in 1..Len(products) :
                          products[i].id = d.robots[j].robot_id}) = 1
    /\ \A i \in 1..Len(products) :
          LET prod == products[i]
              own == {n \in 1..Len(d.photos) : d.photos[n].robot_id = prod.id}
              placeholder == <<"h","t","t","p","s",":","/","/","v","i","a",".","p","l","a","c","e","h","o","l","d","e","r",".","c","o","m","/","4","0","0","x","3","0","0","?","t","e","x","t","=">>
                                 \o prod.vendor \o <<"+">> \o prod.name
          IN /\ Len(prod.images) >= 4
             /\ prod.image = prod.images[1]
             /\ (\E k \in 1..Len(prod.images) : prod.images[k] = placeholder)
                    <=> own = {}
             /\ own # {} =>
                   \A k \in 1..Len(prod.images) :
                       \E n \in own : prod.images[k] = Url(d.photos[n])
             /\ Cardinality(own) < 4 =>
                   \A k \in (Max({1, Cardinality(own)}) + 1)..Len(prod.images) :
                       prod.images[k] = prod.images[1]

\* The S3 URL upload_photos gives photo row p of d.
S3UrlOf(d, p) ==
    LET joined == SelectSeq(PhotosJoinRobots(d),
                            LAMBDA x : x.p.photo_id = p.photo_id)
    IN S3Url(joined[1])

\* C21: the catalog export emits one product record per robot, with an images
\* list of at least four entries padded by repeating the first and image equal
\* to the first; the placeholder is used exactly when the robot has no photos,
\* and otherwise every entry is the URL of one of the robot's own photos. This
\* for the static export with every photo_urls.json an upload run can have
\* written, and for the /api/database-robots response.
C21_ExportWellFormed ==
    /\ ProductsWellFormed(conn, get_database_robots(conn),
                          LAMBDA p : ApiPhotoUrl(p.photo_id))
    /\ \A uploaded \in SUBSET PhotoIds(conn) :
          ProductsWellFormed(conn,
              generate_static_api(conn, upload_photos(conn, files, uploaded)),
              LAMBDA p : S3UrlOf(conn, p))

\* Table a is the beginning of table b: every row of a is in b, in its place
\* and with every field as it was.
IsPrefix(a, b) == Len(a) <= Len(b) /\ SubSeq(b, 1, Len(a)) = a

\* C22: across the operations of the data-access component, a robot row once
\* inserted is never deleted or modified and a photo row once inserted is
\* never deleted or modified: every step leaves the rows of the database file
\* in place, and the connection loses a row of its own only when close()
\* rolls back the transaction that inserted it.
C22_RowsNeverChange ==
    [][/\ IsPrefix(committed.robots, committed'.robots)
       /\ IsPrefix(committed.photos, committed'.photos)
       /\ \/ conn' = committed
          \/ /\ IsPrefix(conn.robots, conn'.robots)
             /\ IsPrefix(conn.photos, conn'.photos)]_vars

\* Two robots and two photos are committed, and a tag has been added since.
C22_Witness ==
    /\ Len(committed.robots) = 2
    /\ Len(committed.photos) = 2
    /\ last.op = "add_tag_to_photo" /\ last.changed

TagNamesOf(d) == {d.tags[j].tag_name : j \in 1..Len(d.tags)}

\* No two tag rows of d have the same name.
TagNamesUnique(d) ==
    \A i, j \in 1..Len(d.tags) :
        d.tags[i].tag_name = d.tags[j].tag_name => i = j

\* The step supplies tag_name for photo_id: afterwards the names of the tag
\* rows are those of before and tag_name, one row has exactly that name, and
\* it is the row of that name the photo is linked to.
TagSupplied(photo_id, tag_name) ==
    /\ TagNamesOf(conn') = TagNamesOf(conn) \cup {tag_name}
    /\ Cardinality(TagRowsNamed(conn', tag_name)) = 1
    /\ Linked(conn', photo_id, tag_name)

\* C23: after any sequence of add_photo and add_tag_to_photo calls no two tag
\* rows have the same name; names that differ only in letter case are
\* distinct tags, each with a row of its own; and a tag row exists only for
\* a name that some call has supplied.
C23_TagNamesUniqueAndSupplied ==
    /\ [](TagNamesUnique(conn) /\ TagNamesUnique(committed))
    /\ [][/\ AddPhotoTag => TagSupplied(call.photo_id, call.tags[call.k])
          /\ \A p \in PhotoIdInputs, t \in WideTagNames :
                AddTagToPhoto(p, t) => TagSupplied(p, t)
          /\ conn'.tags # conn.tags =>
                \/ AddPhotoTag
                \/ \E p \in PhotoIdInputs, t \in WideTagNames :
                      AddTagToPhoto(p, t)]_vars

\* "aerial" and "Aerial" both have a row, and one photo is linked to both.
C23_Witness ==
    /\ Len(committed.tags) = 2
    /\ TagNamesOf(committed) = {Aerial, AerialCap}
    /\ \E id \in PhotoIds(committed) :
          Linked(committed, id, Aerial) /\ Linked(committed, id, AerialCap)

\* photo_storage/<category name in lower case, blanks as "_">/<timestamp>_<name>
ExpectedPath(category_name, t, source_file) ==
    PhotoStorage \o <<"/">>
        \o [i \in 1..Len(category_name) |->
               IF category_name[i] = " " THEN "_" ELSE LowerChar(category_name[i])]
        \o <<"/">> \o Strftime(t) \o <<"_">> \o BaseName(source_file)

\* C24: add_photo with an existing source file and an existing robot succeeds
\* for a robot of every category of the categories table: it copies the
\* source bytes to photo_storage/<category>/<timestamp>_<file name>, inserts
\* exactly one photo row, with that path as file_path, and returns.
C24_AddPhotoEveryCategory ==
    [][/\ \A r \in RobotIdInputs, t \in WideTagListInputs :
             (r \in RobotIds(conn) /\ AddPhotoBegin(r, FileA, t)) =>
                 \E c \in CategoryOf(conn, r) :
                     /\ pc' = "copied"
                     /\ call'.dest_path = ExpectedPath(c, now, FileA)
                     /\ call'.dest_path \in DOMAIN files'
                     /\ files'[call'.dest_path] = files[FileA]
       /\ AddPhotoInsert =>
             /\ Len(conn'.photos) = Len(conn.photos) + 1
             /\ IsPrefix(conn.photos, conn'.photos)
             /\ conn'.photos[Len(conn'.photos)].file_path = call.dest_path
             /\ conn'.photos[Len(conn'.photos)].robot_id = call.robot_id
       /\ AddPhotoCommit =>
             /\ last'.ok /\ last'.ret = call.photo_id
             /\ Cardinality({i \in 1..Len(committed'.photos) :
                    committed'.photos[i].photo_id = call.photo_id}) = 1
             /\ \A i \in 1..Len(committed'.photos) :
                   committed'.photos[i].photo_id = call.photo_id =>
                       committed'.photos[i].file_path = call.dest_path]_vars

\* Photos of an AMR and of a robotic arm are committed and stored.
C24_Witness ==
    /\ last.op = "add_photo" /\ last.ok
    /\ PhotosInCategory(committed, AMRs) # {}
    /\ PhotosInCategory(committed, RoboticArms) # {}
    /\ \A i \in 1..Len(committed.photos) :
          committed.photos[i].file_path \in DOMAIN files

\* Slots i and j have both copied to one destination path.
SamePath(i, j) ==
    /\ i # j /\ Copied(i) /\ Copied(j)
    /\ reqs[i].frame.dest_path = reqs[j].frame.dest_path

\* C25: two add_photo calls within the same second, for the same source file
\* name and robots of the same category, get the same destination path: both
\* succeed, the second copy overwrites the file the first one stored, and the
\* database holds two photo rows with the same file_path.
C25_SamePathOverwrites ==
    /\ [](\A i, j \in Slots : SamePath(i, j) =>
             LET c == reqs[i].frame
             IN /\ c.dest_path \in DOMAIN files
                /\ reqs[i].stage # "returned" =>
                      ENABLED (\E n \in Slots :
                                  ConnInsert(n) \/ ConnTag(n) \/ ConnCommit(n))
                /\ reqs[i].stage = "returned" =>
                      /\ Len(RowsOf(committed, i)) = 1
                      /\ RowsOf(committed, i)[1].file_path = c.dest_path
                /\ (reqs[i].stage = "returned" /\ reqs[j].stage = "returned") =>
                      /\ c.photo_id # reqs[j].frame.photo_id
                      /\ Cardinality({k \in 1..Len(committed.photos) :
                             committed.photos[k].file_path = c.dest_path}) >= 2)
    /\ [][\A i \in Slots, s \in DOMAIN CallerFiles :
             (/\ reqs[i].stage = "idle"
              /\ \E r \in RobotIds(SeededDb), t \in TagListInputs :
                    CallAddPhoto(i, r, s, t)
              /\ \E j \in Slots : j # i /\ Copied(j)
                    /\ reqs[j].frame.dest_path = reqs'[i].frame.dest_path)
             => /\ reqs'[i].stage = "copied"
                /\ files'[reqs'[i].frame.dest_path] = CallerFiles[s]]_vars

\* Both calls have returned with one destination path; they copied different
\* files of the same name, and the stored file is the copy of the second.
C25_Witness ==
    /\ SamePath(1, 2)
    /\ reqs[1].stage = "returned" /\ reqs[2].stage = "returned"
    /\ reqs[1].frame.source_file = FileA /\ reqs[2].frame.source_file = FileC
    /\ files[reqs[1].frame.dest_path] = CallerFiles[FileC]

\* Every photo_tags row of d names a photo row and a tag row of d.
LinksReferenceRows(d) ==
    \A pt \in DOMAIN d.photo_tags :
        /\ pt.photo_id \in PhotoIds(d)
        /\ \E j \in 1..Len(d.tags) : d.tags[j].tag_id = pt.tag_id

\* C26: every photo-tag link row references an existing photo row and an
\* existing tag row, in the connection and in the database file; in
\* particular add_tag_to_photo with a photo_id that matches no photo row
\* creates no link row.
C26_LinksReferenceRows ==
    LinksReferenceRows(conn) /\ LinksReferenceRows(committed)

\* C27: concurrent upload requests do not interfere through the temporary
\* file: in every interleaving of two uploads, equal sanitized file names
\* included, a request that has saved its upload and not yet copied it finds
\* its temporary file in place with the bytes it uploaded, and no request
\* fails because its temporary file is gone.
C27_TempFilesDoNotInterfere ==
    \A i \in Slots :
        /\ reqs[i].stage = "saved" =>
              /\ reqs[i].temp_path \in DOMAIN files
              /\ files[reqs[i].temp_path].data = reqs[i].form.data
        /\ reqs[i].error # "FileNotFoundError"

\* Every photo_id occurs in rows at most once.
EachPhotoOnce(rows) ==
    \A a, b \in 1..Len(rows) : rows[a].photo_id = rows[b].photo_id => a = b

\* The tag lists of the searches below: a photo may be linked to both names
\* of the third, and the fourth has one name twice.
RepeatedTagFilters == {NoList, <<Aerial>>, <<Aerial, FourK>>, <<Aerial, Aerial>>}

\* C28: search_photos returns each photo row at most once, for every
\* combination of filters, also when a photo is linked to several of the
\* supplied tag names and when a tag name is supplied more than once.
C28_SearchEachPhotoOnce ==
    \A c \in CategoryFilters, m \in {None, <<"A","c">>}, n \in ModelFilters,
       t \in RepeatedTagFilters :
        EachPhotoOnce(search_photos(conn, c, m, n, t))

\* Two photos are linked to both "aerial" and "4k", and the search for the
\* two names returns them.
C28_Witness ==
    /\ Len(conn.photos) = 2
    /\ \A id \in PhotoIds(conn) :
          Linked(conn, id, Aerial) /\ Linked(conn, id, FourK)
    /\ Len(search_photos(conn, None, None, None, <<Aerial, FourK>>)) = 2
    /\ Len(search_photos(conn, None, None, None, <<Aerial, Aerial>>)) = 2

\* C29: a filter given with an empty value (the empty text for category,
\* manufacturer or model, the empty list for tags) is treated exactly as a
\* filter that is left out, whatever the other filters are.
C29_EmptyFilterIsNoFilter ==
    \A c \in CategoryFilters, m \in {None, DJI}, n \in ModelFilters,
       t \in {NoList, <<Aerial>>} :
        \E rows \in {search_photos(conn, c, m, n, t)} :
            /\ c = None => search_photos(conn, <<>>, m, n, t) = rows
            /\ m = None => search_photos(conn, c, <<>>, n, t) = rows
            /\ n = None => search_photos(conn, c, m, <<>>, t) = rows
            /\ t = NoList => search_photos(conn, c, m, n, <<>>) = rows

\* There are photos, of robots of two manufacturers, one of them tagged, and
\* the search with every filter empty returns them all.
C29_Witness ==
    /\ Len(conn.photos) = 2
    /\ Len(search_photos(conn, <<>>, <<>>, <<>>, <<>>)) = 2
    /\ Len(search_photos(conn, <<>>, DJI, <<>>, <<>>)) = 1
    /\ Len(search_photos(conn, <<>>, <<>>, <<>>, <<Aerial>>)) = 1

====
